---- MODULE Spec2Model ----
(***************************************************************************)
(* Model of the FireHawk quantity estimator: the unit converter, the       *)
(* calculator (FireHawkCalculator.calculate and its helpers) and the       *)
(* debounced realtime controller (useRealtimeCalculation).                 *)
(*                                                                         *)
(* Numbers.  JavaScript numbers are modelled as exact extended rationals   *)
(* [n, d]: d > 0 is the fraction n/d in lowest terms, [1,0] and [-1,0] are *)
(* +Infinity and -Infinity and [0,0] is NaN.  Decimal literals of the      *)
(* source are written as mantissa / 10^exponent, so that no factor is      *)
(* rounded.  Floating-point rounding error is not modelled.                *)
(***************************************************************************)
EXTENDS Integers, Sequences, FiniteSets, TLC

\* ------------------------------------------------------------------ bounds
MaxPackages == 2
MaxPkgVolume == 2
MaxPrice == 2
MaxInputs == 4
MaxTicks == 6

\* ------------------------------------------------------------- arithmetic
Abs(x) == IF x < 0 THEN -x ELSE x

Sgn(x) == IF x < 0 THEN -1 ELSE IF x > 0 THEN 1 ELSE 0

RECURSIVE Gcd(_, _)
Gcd(a, b) == IF b = 0 THEN a ELSE Gcd(b, a % b)

R(n, d) ==
  IF d = 0 THEN [n |-> Sgn(n), d |-> 0]
  ELSE LET g == Gcd(Abs(n), Abs(d))
           s == Sgn(d)
       IN  [n |-> s * (n \div g), d |-> s * (d \div g)]

NaN == [n |-> 0, d |-> 0]

Num(k) == [n |-> k, d |-> 1]

IsNaN(x) == x.n = 0 /\ x.d = 0

\* the product, with common factors cancelled before multiplying
RMul(x, y) ==
  IF x.d = 0 \/ y.d = 0 THEN R(x.n * y.n, 0)
  ELSE LET g1 == Gcd(Abs(x.n), y.d)
           g2 == Gcd(Abs(y.n), x.d)
       IN  R((x.n \div g1) * (y.n \div g2), (x.d \div g2) * (y.d \div g1))

RDiv(x, y) ==
  IF IsNaN(x) \/ IsNaN(y) THEN NaN
  ELSE IF y.d = 0 THEN (IF x.d = 0 THEN NaN ELSE Num(0))
  ELSE IF x.d = 0 THEN [n |-> x.n * (IF y.n < 0 THEN -1 ELSE 1), d |-> 0]
  ELSE R(x.n * y.d, x.d * y.n)

RSub(x, y) ==
  IF IsNaN(x) \/ IsNaN(y) THEN NaN
  ELSE IF x.d = 0 /\ y.d = 0 THEN (IF x.n = y.n THEN NaN ELSE x)
  ELSE IF x.d = 0 THEN x
  ELSE IF y.d = 0 THEN [n |-> -y.n, d |-> 0]
  ELSE R(x.n * y.d - y.n * x.d, x.d * y.d)

\* x < y, x <= y, x > y as JavaScript evaluates them: false when either is NaN
RLt(x, y) == ~IsNaN(x) /\ ~IsNaN(y) /\ RSub(x, y).n < 0

RLe(x, y) == ~IsNaN(x) /\ ~IsNaN(y) /\ (x = y \/ RSub(x, y).n < 0)

RGt(x, y) == RLt(y, x)

\* Math.ceil
MathCeil(x) == IF x.d = 0 THEN x ELSE Num(-((-x.n) \div x.d))

\* Math.max / Math.min of two numbers: NaN if either is NaN
MathMax(x, y) == IF IsNaN(x) \/ IsNaN(y) THEN NaN ELSE IF RLt(x, y) THEN y ELSE x

MathMin(x, y) == IF IsNaN(x) \/ IsNaN(y) THEN NaN ELSE IF RLt(y, x) THEN y ELSE x

\* value * m / 10^e: the product with the decimal literal m e-<e>, exact;
\* factors of ten are cancelled against m before the rest is multiplied
RECURSIVE MulDecimalLoop(_, _, _)
MulDecimalLoop(x, m, e) ==
  IF e = 0 THEN RMul(x, Num(m))
  ELSE IF m % 10 = 0 THEN MulDecimalLoop(x, m \div 10, e - 1)
  ELSE IF m % 5 = 0 THEN MulDecimalLoop(RMul(x, R(1, 2)), m \div 5, e - 1)
  ELSE IF m % 2 = 0 THEN MulDecimalLoop(RMul(x, R(1, 5)), m \div 2, e - 1)
  ELSE MulDecimalLoop(RMul(x, R(1, 10)), m, e - 1)

\* A product of decimal literals can need more than 31 bits; such a number is
\* kept as its digits in base 1000, least significant first, over 10^e:
\* value = (limbs[1] + 1000 * limbs[2] + ...) / 10^e, exact and positive.
RECURSIVE ToLimbs(_)
ToLimbs(k) == IF k = 0 THEN <<>> ELSE <<k % 1000>> \o ToLimbs(k \div 1000)

Wide(m, e) == [limbs |-> ToLimbs(m), e |-> e]

IsWide(x) == "limbs" \in DOMAIN x

\* limbs * m + carry, for 0 < m < 10^6
RECURSIVE MulLimbs(_, _, _)
MulLimbs(limbs, m, carry) ==
  IF limbs = <<>> THEN ToLimbs(carry)
  ELSE LET p == Head(limbs) * m + carry
       IN  <<p % 1000>> \o MulLimbs(Tail(limbs), m, p \div 1000)

\* limbs * 10^k
RECURSIVE ScaleLimbs(_, _)
ScaleLimbs(limbs, k) == IF k = 0 THEN limbs ELSE ScaleLimbs(MulLimbs(limbs, 10, 0), k - 1)

RECURSIVE CompareLimbsFrom(_, _, _)
CompareLimbsFrom(a, b, i) ==
  IF i = 0 THEN 0
  ELSE IF a[i] < b[i] THEN -1
  ELSE IF a[i] > b[i] THEN 1
  ELSE CompareLimbsFrom(a, b, i - 1)

\* -1, 0 or 1 as a < b, a = b or a > b
CompareLimbs(a, b) ==
  IF Len(a) < Len(b) THEN -1
  ELSE IF Len(a) > Len(b) THEN 1
  ELSE CompareLimbsFrom(a, b, Len(a))

RECURSIVE StripLimbs(_)
StripLimbs(a) ==
  IF a # <<>> /\ a[Len(a)] = 0 THEN StripLimbs(SubSeq(a, 1, Len(a) - 1)) ELSE a

\* a - b - borrow for a >= b
RECURSIVE SubLimbs(_, _, _)
SubLimbs(a, b, borrow) ==
  IF a = <<>> THEN <<>>
  ELSE LET d == Head(a) - (IF b = <<>> THEN 0 ELSE Head(b)) - borrow
       IN  <<IF d < 0 THEN d + 1000 ELSE d>>
             \o SubLimbs(Tail(a), IF b = <<>> THEN <<>> ELSE Tail(b), IF d < 0 THEN 1 ELSE 0)

AbsDiffLimbs(a, b) ==
  IF CompareLimbs(a, b) < 0 THEN StripLimbs(SubLimbs(b, a, 0))
  ELSE StripLimbs(SubLimbs(a, b, 0))

\* floor(a / m) for 0 < m <= 10; the digits from position i down, with the
\* remainder of the digits above
RECURSIVE DivLimbsFrom(_, _, _, _)
DivLimbsFrom(a, m, i, rem) ==
  IF i = 0 THEN <<>>
  ELSE LET cur == rem * 1000 + a[i]
       IN  DivLimbsFrom(a, m, i - 1, cur % m) \o <<cur \div m>>

DivLimbs(a, m) == StripLimbs(DivLimbsFrom(a, m, Len(a), 0))

\* floor(limbs / 10^k)
RECURSIVE UnscaleLimbs(_, _)
UnscaleLimbs(limbs, k) == IF k = 0 THEN limbs ELSE UnscaleLimbs(DivLimbs(limbs, 10), k - 1)

\* the integer the digits stand for
RECURSIVE LimbsValue(_)
LimbsValue(limbs) == IF limbs = <<>> THEN 0 ELSE Head(limbs) + 1000 * LimbsValue(Tail(limbs))

\* a number of at most two decimals as its digits over 10^2, so that its
\* product with a conversion factor stays exact; any other number as it is
Exact(x) ==
  IF x.d > 0 /\ x.n >= 0 /\ 100 % x.d = 0
  THEN [limbs |-> ToLimbs(x.n * (100 \div x.d)), e |-> 2]
  ELSE x

MulDecimal(x, f) ==
  IF IsWide(x) THEN [limbs |-> MulLimbs(x.limbs, f.m, 0), e |-> x.e + f.e]
  ELSE MulDecimalLoop(x, f.m, f.e)

Dec(m, e) == [m |-> m, e |-> e]

\* ------------------------------------------------------------------ types
AreaUnits == {"sq_ft", "sq_m", "acres", "hectares"}

VolumeUnits == {"fl_oz", "gallons", "ml", "liters"}

WeedSizes == {"small", "medium", "large", "xl"}

UnitSystems == {"imperial", "metric"}

Null == [null |-> TRUE]

\* -------------------------------------------------------------- constants
NoFactor == [none |-> TRUE]

\* CONVERSION_FACTORS.AREA and its rows are plain object literals: a lookup by
\* a name that every object inherits from Object.prototype yields that
\* inherited member (a function), not undefined. Two such names stand for all.
ObjectPrototypeKeys == {"constructor", "toString"}

InheritedMember == [inherited |-> TRUE]

\* the table with two digits of the acres to sq_ft factor transposed
CONVERSION_FACTORS_AREA_Transposed(from, to) ==
  CASE from = "sq_ft" /\ to = "sq_m" -> Dec(92903, 6)
    [] from = "sq_ft" /\ to = "acres" -> Dec(22957, 9)
    [] from = "sq_ft" /\ to = "hectares" -> Dec(92903, 10)
    [] from = "sq_m" /\ to = "sq_ft" -> Dec(107639, 4)
    [] from = "sq_m" /\ to = "acres" -> Dec(247105, 9)
    [] from = "sq_m" /\ to = "hectares" -> Dec(1, 4)
    [] from = "acres" /\ to = "sq_ft" -> Dec(43650, 0)
    [] from = "acres" /\ to = "sq_m" -> Dec(404686, 2)
    [] from = "acres" /\ to = "hectares" -> Dec(404686, 6)
    [] from = "hectares" /\ to = "sq_ft" -> Dec(107639, 0)
    [] from = "hectares" /\ to = "sq_m" -> Dec(10000, 0)
    [] from = "hectares" /\ to = "acres" -> Dec(247105, 5)
    [] to \in ObjectPrototypeKeys /\ from \in AreaUnits \cup ObjectPrototypeKeys -> InheritedMember
    [] OTHER -> NoFactor

CONVERSION_FACTORS_AREA(from, to) ==
  CASE from = "sq_ft" /\ to = "sq_m" -> Dec(92903, 6)
    [] from = "sq_ft" /\ to = "acres" -> Dec(22957, 9)
    [] from = "sq_ft" /\ to = "hectares" -> Dec(92903, 10)
    [] from = "sq_m" /\ to = "sq_ft" -> Dec(107639, 4)
    [] from = "sq_m" /\ to = "acres" -> Dec(247105, 9)
    [] from = "sq_m" /\ to = "hectares" -> Dec(1, 4)
    [] from = "acres" /\ to = "sq_ft" -> Dec(43560, 0)
    [] from = "acres" /\ to = "sq_m" -> Dec(404686, 2)
    [] from = "acres" /\ to = "hectares" -> Dec(404686, 6)
    [] from = "hectares" /\ to = "sq_ft" -> Dec(107639, 0)
    [] from = "hectares" /\ to = "sq_m" -> Dec(10000, 0)
    [] from = "hectares" /\ to = "acres" -> Dec(247105, 5)
    [] to \in ObjectPrototypeKeys /\ from \in AreaUnits \cup ObjectPrototypeKeys -> InheritedMember
    [] OTHER -> NoFactor

CONVERSION_FACTORS_VOLUME(from, to) ==
  CASE from = "fl_oz" /\ to = "ml" -> Dec(295735, 4)
    [] from = "fl_oz" /\ to = "gallons" -> Dec(78125, 7)
    [] from = "fl_oz" /\ to = "liters" -> Dec(295735, 7)
    [] from = "ml" /\ to = "fl_oz" -> Dec(33814, 6)
    [] from = "ml" /\ to = "gallons" -> Dec(264172, 9)
    [] from = "ml" /\ to = "liters" -> Dec(1, 3)
    [] from = "gallons" /\ to = "fl_oz" -> Dec(128, 0)
    [] from = "gallons" /\ to = "ml" -> Dec(378541, 2)
    [] from = "gallons" /\ to = "liters" -> Dec(378541, 5)
    [] from = "liters" /\ to = "fl_oz" -> Dec(33814, 3)
    [] from = "liters" /\ to = "ml" -> Dec(1000, 0)
    [] from = "liters" /\ to = "gallons" -> Dec(264172, 6)
    [] to \in ObjectPrototypeKeys /\ from \in VolumeUnits \cup ObjectPrototypeKeys -> InheritedMember
    [] OTHER -> NoFactor

\* WEED_SIZE_CONFIG.find(config => config.id === weedSize): the multiplier of
\* the entry, or Null when no entry has that id
WEED_SIZE_CONFIG(weedSize) ==
  CASE weedSize = "small" -> [multiplier |-> Num(1)]
    [] weedSize = "medium" -> [multiplier |-> Num(1)]
    [] weedSize = "large" -> [multiplier |-> Num(1)]
    [] weedSize = "xl" -> [multiplier |-> Num(1)]
    [] OTHER -> Null

DEFAULT_APPLICATION_RATES(weedSize) ==
  CASE weedSize = "small" -> [min |-> Num(3), max |-> Num(7), default |-> Num(5)]
    [] weedSize = "medium" -> [min |-> Num(4), max |-> Num(8), default |-> Num(5)]
    [] weedSize = "large" -> [min |-> Num(5), max |-> Num(9), default |-> Num(6)]
    [] weedSize = "xl" -> [min |-> Num(5), max |-> Num(10), default |-> Num(7)]
    [] OTHER -> Null

UNIT_SYSTEM_DEFAULTS(system) ==
  IF system = "imperial"
  THEN [areaUnit |-> "sq_ft", volumeUnit |-> "fl_oz"]
  ELSE [areaUnit |-> "sq_m", volumeUnit |-> "ml"]

\* CALCULATION_CONSTANTS has no STANDARD_SPRAY_VOLUME key: the property read
\* yields undefined, which the multiplication in calculateTotalMixture turns
\* into NaN
STANDARD_SPRAY_VOLUME == NaN

CALCULATION_DEBOUNCE == 300

MIN_AREA == 100

MAX_AREA == 100000

\* ---------------------------------------------------------- UnitConverter
\* A call either returns a number or throws: [ok, value] or [ok, cause]
Return(v) == [ok |-> TRUE, value |-> v]

Throw(c) == [ok |-> FALSE, cause |-> c]

convertArea(value, from, to) ==
  IF from = to THEN Return(value)
  ELSE LET conversionFactor == CONVERSION_FACTORS_AREA(from, to)
       IN  IF conversionFactor = NoFactor
           THEN Throw([kind |-> "ConversionNotSupported", from |-> from, to |-> to])
           ELSE IF conversionFactor = InheritedMember
           THEN Return(NaN)
           ELSE Return(MulDecimal(value, conversionFactor))

convertVolume(value, from, to) ==
  IF from = to THEN Return(value)
  ELSE LET conversionFactor == CONVERSION_FACTORS_VOLUME(from, to)
       IN  IF conversionFactor = NoFactor
           THEN Throw([kind |-> "ConversionNotSupported", from |-> from, to |-> to])
           ELSE IF conversionFactor = InheritedMember
           THEN Return(NaN)
           ELSE Return(MulDecimal(value, conversionFactor))

\* Math.round: the nearest integer, halves towards +Infinity
MathRound(x) == IF x.d = 0 THEN x ELSE Num((2 * x.n + x.d) \div (2 * x.d))

\* Math.round(x * 100) / 100; for digits over 10^e the digits below the
\* third decimal are dropped and the third decimal rounds the second
RoundToCents(x) ==
  IF IsWide(x)
  THEN (IF x.e <= 2 THEN R(LimbsValue(ScaleLimbs(x.limbs, 2 - x.e)), 100)
        ELSE R(LimbsValue(DivLimbs(MulLimbs(UnscaleLimbs(x.limbs, x.e - 3), 1, 5), 10)), 100))
  ELSE RDiv(MathRound(RMul(x, Num(100))), Num(100))

\* convertToSystem: the values themselves when already in the target system;
\* otherwise area and rate converted to the target's default units and rounded
\* to two decimals. A failing conversion propagates.
convertToSystem(vals, targetSystem) ==
  IF vals.unitSystem = targetSystem THEN Return(vals)
  ELSE LET systemDefaults == UNIT_SYSTEM_DEFAULTS(targetSystem)
           convertedArea == convertArea(Exact(vals.area), vals.areaUnit, systemDefaults.areaUnit)
           convertedApplicationRate ==
             convertVolume(Exact(vals.applicationRate), vals.applicationUnit,
                           systemDefaults.volumeUnit)
       IN  IF ~convertedArea.ok THEN convertedArea
           ELSE IF ~convertedApplicationRate.ok THEN convertedApplicationRate
           ELSE Return([vals EXCEPT
                          !.area = RoundToCents(convertedArea.value),
                          !.areaUnit = systemDefaults.areaUnit,
                          !.applicationRate = RoundToCents(convertedApplicationRate.value),
                          !.applicationUnit = systemDefaults.volumeUnit,
                          !.unitSystem = targetSystem])

toStandardArea(value, unit) == convertArea(value, unit, "sq_ft")

toStandardVolume(value, unit) == convertVolume(value, unit, "fl_oz")

\* the comparison with a NaN argument is false, so NaN selects the small unit
getOptimalVolumeUnit(valueInFluidOunces, system) ==
  IF system = "imperial"
  THEN (IF RGt(valueInFluidOunces, Num(32)) THEN "gallons" ELSE "fl_oz")
  ELSE LET valueInMilliliters == convertVolume(valueInFluidOunces, "fl_oz", "ml").value
       IN  IF RGt(valueInMilliliters, Num(1000)) THEN "liters" ELSE "ml"


\* ----------------------------------------------------- FireHawkCalculator
calculateRequiredProduct(areaSquareFeet, applicationRateOzPer1000SqFt, concentrationRatio) ==
  LET baseRequirement == RMul(RDiv(areaSquareFeet, Num(1000)), applicationRateOzPer1000SqFt)
  IN  baseRequirement

\* applyWeedSizeMultiplier that falls back to the unadjusted rate when the
\* weed size is not configured
applyWeedSizeMultiplierDefault(baseApplicationRate, weedSize) ==
  LET weedConfig == WEED_SIZE_CONFIG(weedSize)
  IN  IF weedConfig = Null
      THEN Return(baseApplicationRate)
      ELSE LET adjustedRate == RMul(baseApplicationRate, weedConfig.multiplier)
               rateConfig == DEFAULT_APPLICATION_RATES(weedSize)
           IN  Return(MathMax(rateConfig.min, MathMin(rateConfig.max, adjustedRate)))

\* applyWeedSizeMultiplier that returns the adjusted rate without clamping it
applyWeedSizeMultiplierUnclamped(baseApplicationRate, weedSize) ==
  LET weedConfig == WEED_SIZE_CONFIG(weedSize)
  IN  IF weedConfig = Null
      THEN Throw([kind |-> "InvalidWeedSize", weedSize |-> weedSize])
      ELSE Return(RMul(baseApplicationRate, weedConfig.multiplier))

applyWeedSizeMultiplier(baseApplicationRate, weedSize) ==
  LET weedConfig == WEED_SIZE_CONFIG(weedSize)
  IN  IF weedConfig = Null
      THEN Throw([kind |-> "InvalidWeedSize", weedSize |-> weedSize])
      ELSE LET adjustedRate == RMul(baseApplicationRate, weedConfig.multiplier)
               rateConfig == DEFAULT_APPLICATION_RATES(weedSize)
           IN  Return(MathMax(rateConfig.min, MathMin(rateConfig.max, adjustedRate)))

calculateTotalMixture(areaSquareFeet, sprayVolumeGallonsPer1000SqFt) ==
  RMul(RDiv(areaSquareFeet, Num(1000)), sprayVolumeGallonsPer1000SqFt)

Infinity == [n |-> 1, d |-> 0]

\* the loop of calculateCost over packageSizes[i..], minCost carried along
RECURSIVE CostLoop(_, _, _, _)
CostLoop(packageSizes, i, requiredProductOz, minCost) ==
  IF i > Len(packageSizes) THEN Return(minCost)
  ELSE LET packageSize == packageSizes[i]
           packageOz == convertVolume(packageSize.volume, packageSize.unit, "fl_oz")
       IN  IF ~packageOz.ok THEN packageOz
           ELSE LET packagesNeeded == MathCeil(RDiv(requiredProductOz, packageOz.value))
                    totalCost == RMul(packagesNeeded, packageSize.price)
                IN  CostLoop(packageSizes, i + 1, requiredProductOz,
                             IF RLt(totalCost, minCost) THEN totalCost ELSE minCost)

\* calculateCost without its two guards for "no package found"
calculateCostUnguarded(productInfo, requiredProductOz) ==
  CostLoop(productInfo.packageSizes, 1, requiredProductOz, Infinity)

calculateCost(productInfo, requiredProductOz) ==
  IF Len(productInfo.packageSizes) = 0 THEN Return(Num(0))
  ELSE LET minCost == CostLoop(productInfo.packageSizes, 1, requiredProductOz, Infinity)
       IN  IF ~minCost.ok THEN minCost
           ELSE Return(IF minCost.value = Infinity THEN Num(0) ELSE minCost.value)

\* Recommend with the ratio inverted: Math.ceil(packageOz / requiredProductOz)
RecommendInvertedRatio(packageSize, requiredProductOz) ==
  LET packageOz == convertVolume(packageSize.volume, packageSize.unit, "fl_oz")
  IN  IF ~packageOz.ok THEN packageOz
      ELSE LET quantity == MathCeil(RDiv(packageOz.value, requiredProductOz))
               totalCost == RMul(quantity, packageSize.price)
               totalProductOz == RMul(quantity, packageOz.value)
               efficiency == RDiv(totalCost, totalProductOz)
           IN  Return([packageId |-> packageSize.id,
                       quantity |-> quantity,
                       totalCost |-> totalCost,
                       efficiency |-> efficiency,
                       isOptimal |-> FALSE])

\* Recommend with the quantity rounded down instead of up
RecommendRoundedDown(packageSize, requiredProductOz) ==
  LET packageOz == convertVolume(packageSize.volume, packageSize.unit, "fl_oz")
  IN  IF ~packageOz.ok THEN packageOz
      ELSE LET ratio == RDiv(requiredProductOz, packageOz.value)
               quantity == IF ratio.d = 0 THEN ratio ELSE Num(ratio.n \div ratio.d)
               totalCost == RMul(quantity, packageSize.price)
               totalProductOz == RMul(quantity, packageOz.value)
               efficiency == RDiv(totalCost, totalProductOz)
           IN  Return([packageId |-> packageSize.id,
                       quantity |-> quantity,
                       totalCost |-> totalCost,
                       efficiency |-> efficiency,
                       isOptimal |-> FALSE])

\* one iteration of the loop of generateRecommendations
Recommend(packageSize, requiredProductOz) ==
  LET packageOz == convertVolume(packageSize.volume, packageSize.unit, "fl_oz")
  IN  IF ~packageOz.ok THEN packageOz
      ELSE LET quantity == MathCeil(RDiv(requiredProductOz, packageOz.value))
               totalCost == RMul(quantity, packageSize.price)
               totalProductOz == RMul(quantity, packageOz.value)
               efficiency == RDiv(totalCost, totalProductOz)
           IN  Return([packageId |-> packageSize.id,
                       quantity |-> quantity,
                       totalCost |-> totalCost,
                       efficiency |-> efficiency,
                       isOptimal |-> FALSE])

\* the comparator with its operands swapped: b.efficiency - a.efficiency
CompareEfficiencyDescending(a, b) ==
  LET v == RSub(b.efficiency, a.efficiency)
  IN  IF IsNaN(v) THEN 0 ELSE Sgn(v.n)

\* the comparator on the wrong key: a.totalCost - b.totalCost
CompareTotalCost(a, b) ==
  LET v == RSub(a.totalCost, b.totalCost)
  IN  IF IsNaN(v) THEN 0 ELSE Sgn(v.n)

\* the comparator (a, b) => a.efficiency - b.efficiency, as Array.prototype.sort
\* reads it: a negative number, a positive number, or 0 (NaN counts as 0)
CompareEfficiency(a, b) ==
  LET v == RSub(a.efficiency, b.efficiency)
  IN  IF IsNaN(v) THEN 0 ELSE Sgn(v.n)

\* Array.prototype.sort is stable: an entry goes before the first entry that
\* compares greater, and after every entry that compares equal or smaller
RECURSIVE InsertStable(_, _, _)
InsertStable(sorted, x, i) ==
  IF i > Len(sorted) THEN Append(sorted, x)
  ELSE IF CompareEfficiency(x, sorted[i]) < 0
       THEN SubSeq(sorted, 1, i - 1) \o <<x>> \o SubSeq(sorted, i, Len(sorted))
       ELSE InsertStable(sorted, x, i + 1)

RECURSIVE SortByEfficiency(_)
SortByEfficiency(recs) ==
  IF Len(recs) = 0 THEN <<>>
  ELSE InsertStable(SortByEfficiency(SubSeq(recs, 1, Len(recs) - 1)), recs[Len(recs)], 1)

MarkFirstOptimal(recs) ==
  IF Len(recs) > 0
  THEN [recs EXCEPT ![1] = [recs[1] EXCEPT !.isOptimal = TRUE]]
  ELSE recs

generateRecommendations(productInfo, requiredProductOz) ==
  LET packageSizes == productInfo.packageSizes
      pushed == [i \in 1..Len(packageSizes) |-> Recommend(packageSizes[i], requiredProductOz)]
      failed == {i \in 1..Len(packageSizes) : ~pushed[i].ok}
  IN  IF failed # {}
      THEN pushed[CHOOSE i \in failed : \A j \in failed : i <= j]
      ELSE Return(MarkFirstOptimal(SortByEfficiency(
                    [i \in 1..Len(packageSizes) |-> pushed[i].value])))

createCalculationBreakdown(pInfo, vals, standardArea, adjustedApplicationRate, requiredProductOz, totalMixtureGallons) ==
  LET weedConfig == WEED_SIZE_CONFIG(vals.weedSize)
  IN  [steps |-> <<[id |-> "area_conversion"], [id |-> "weed_size_adjustment"],
                   [id |-> "product_calculation"], [id |-> "mixture_calculation"]>>,
       factors |-> [weedSizeMultiplier |->
                      IF weedConfig = Null THEN Num(1) ELSE weedConfig.multiplier,
                    applicationRate |-> adjustedApplicationRate,
                    concentrationRatio |-> pInfo.concentrationRatio]]

\* the catch clause of calculate: "Calculation failed: " + the cause's message
CalculationFailed(cause) == [ok |-> FALSE, prefix |-> "Calculation failed", cause |-> cause]

\* requiredProductOz as calculate computes it, for inputs it does not reject
RequiredProductOz(values) ==
  calculateRequiredProduct(
    toStandardArea(values.area, values.areaUnit).value,
    applyWeedSizeMultiplier(
      toStandardVolume(values.applicationRate, values.applicationUnit).value,
      values.weedSize).value,
    Null)

calculate(productInfo, values) ==
  LET standardArea == toStandardArea(values.area, values.areaUnit)
  IN  IF ~standardArea.ok THEN CalculationFailed(standardArea.cause) ELSE
  LET standardApplicationRate == toStandardVolume(values.applicationRate, values.applicationUnit)
  IN  IF ~standardApplicationRate.ok THEN CalculationFailed(standardApplicationRate.cause) ELSE
  LET adjustedApplicationRate ==
        applyWeedSizeMultiplier(standardApplicationRate.value, values.weedSize)
  IN  IF ~adjustedApplicationRate.ok THEN CalculationFailed(adjustedApplicationRate.cause) ELSE
  LET requiredProductOz ==
        calculateRequiredProduct(standardArea.value, adjustedApplicationRate.value,
                                 productInfo.concentrationRatio)
      totalMixtureGallons == calculateTotalMixture(standardArea.value, STANDARD_SPRAY_VOLUME)
      estimatedCost == calculateCost(productInfo, requiredProductOz)
  IN  IF ~estimatedCost.ok THEN CalculationFailed(estimatedCost.cause) ELSE
  LET recommendations == generateRecommendations(productInfo, requiredProductOz)
  IN  IF ~recommendations.ok THEN CalculationFailed(recommendations.cause) ELSE
  LET breakdown ==
        createCalculationBreakdown(productInfo, values, standardArea.value,
                                   adjustedApplicationRate.value, requiredProductOz,
                                   totalMixtureGallons)
      optimalProductUnit == getOptimalVolumeUnit(requiredProductOz, values.unitSystem)
      optimalMixtureUnit ==
        getOptimalVolumeUnit(RMul(totalMixtureGallons, Num(128)), values.unitSystem)
      requiredProduct == convertVolume(requiredProductOz, "fl_oz", optimalProductUnit)
      totalMixture == convertVolume(totalMixtureGallons, "gallons", optimalMixtureUnit)
  IN  [ok |-> TRUE,
       requiredProduct |-> requiredProduct.value,
       productUnit |-> optimalProductUnit,
       totalMixture |-> totalMixture.value,
       mixtureUnit |-> optimalMixtureUnit,
       coverageArea |-> values.area,
       coverageUnit |-> values.areaUnit,
       estimatedCost |-> estimatedCost.value,
       currency |-> productInfo.currency,
       recommendations |-> recommendations.value,
       breakdown |-> breakdown]

\* Number.isFinite
NumberIsFinite(x) == x.d # 0

\* the messages validateInputs pushes; the last one names the weed size and
\* its bounds
AreaPositiveMessage == [text |-> "Area must be a positive number"]

AreaMinMessage == [text |-> "Area must be at least MIN_AREA square feet", bound |-> MIN_AREA]

AreaMaxMessage == [text |-> "Area cannot exceed MAX_AREA square feet", bound |-> MAX_AREA]

RatePositiveMessage == [text |-> "Application rate must be a positive number"]

RateBoundsMessage(weedSize, rateConfig) ==
  [text |-> "Application rate for weedSize weeds must be between min and max",
   weedSize |-> weedSize, min |-> rateConfig.min, max |-> rateConfig.max]

\* errors.push(message) when the condition holds
PushIf(errors, condition, message) == IF condition THEN Append(errors, message) ELSE errors

\* validateInputs that returns as soon as one rule is violated
validateInputsFirstOnly(vals) ==
  LET rateConfig == DEFAULT_APPLICATION_RATES(vals.weedSize)
  IN  IF ~NumberIsFinite(vals.area) \/ RLe(vals.area, Num(0)) THEN Return(<<AreaPositiveMessage>>)
      ELSE IF RLt(vals.area, Num(MIN_AREA)) THEN Return(<<AreaMinMessage>>)
      ELSE IF RGt(vals.area, Num(MAX_AREA)) THEN Return(<<AreaMaxMessage>>)
      ELSE IF ~NumberIsFinite(vals.applicationRate) \/ RLe(vals.applicationRate, Num(0))
           THEN Return(<<RatePositiveMessage>>)
      ELSE IF rateConfig = Null THEN Throw([kind |-> "TypeError"])
      ELSE IF RLt(vals.applicationRate, rateConfig.min) \/ RGt(vals.applicationRate, rateConfig.max)
           THEN Return(<<RateBoundsMessage(vals.weedSize, rateConfig)>>)
      ELSE Return(<<>>)

\* validateInputs: the list of messages, or the TypeError of reading .min of
\* the undefined rate configuration of a weed size that is not configured
validateInputs(vals) ==
  LET e1 == PushIf(<<>>, ~NumberIsFinite(vals.area) \/ RLe(vals.area, Num(0)),
                   AreaPositiveMessage)
      e2 == PushIf(e1, RLt(vals.area, Num(MIN_AREA)), AreaMinMessage)
      e3 == PushIf(e2, RGt(vals.area, Num(MAX_AREA)), AreaMaxMessage)
      e4 == PushIf(e3, ~NumberIsFinite(vals.applicationRate) \/ RLe(vals.applicationRate, Num(0)),
                   RatePositiveMessage)
      rateConfig == DEFAULT_APPLICATION_RATES(vals.weedSize)
  IN  IF rateConfig = Null THEN Throw([kind |-> "TypeError"])
      ELSE Return(PushIf(e4, RLt(vals.applicationRate, rateConfig.min)
                               \/ RGt(vals.applicationRate, rateConfig.max),
                         RateBoundsMessage(vals.weedSize, rateConfig)))


\* ------------------------------------------------------------------ state
VARIABLES
  productInfo,       \* the ProductInfo the calculator was constructed with
  calcValues,        \* calculate called directly: its EstimatorValues argument
  calcResult,        \* ... and what the call returned or threw (Null before)
  values,            \* useRealtimeCalculation: the values prop of the last render
  calculation,       \* useState: the exposed CalculationResult or Null
  isCalculating,     \* useState
  error,             \* useState: the exposed error message or Null
  debounceTimerRef,  \* useRef: id of the timer armed last, 0 while undefined
  timers,            \* the host's pending timeouts armed by this hook
  running,           \* the timer whose callback is executing, or Null
  mounted,           \* the hook's component is mounted
  now,               \* host clock, in ticks of TickMs
  inputSeq,          \* history: number of input sets that reached the hook
  inputTimes,        \* history: arrival time of each input set
  calcLog,           \* history: the calculations executed, oldest first
  fnCall,            \* a helper called directly: its name and arguments
  fnResult,          \* ... and what the call returned or threw (Null before)
  unitSystem,        \* FireHawkEstimator: useState, set from initialUnitSystem
  validationErrors,  \* useEstimatorValues: useState, the messages of the last update
  estimatorError,    \* FireHawkEstimator: useState error, a message or Null
  isAddingToCart,    \* FireHawkEstimator: useState
  selectedPackageId, \* AddToCartSection: useState, 0 for the empty string
  quantity,          \* AddToCartSection: useState
  cartRequest,       \* the onAddToCart promise awaited by handleAddToCart, or Null
  cartLog,           \* history: the cart items handed to onAddToCart, oldest first
  formValues,        \* EstimatorForm: useState, the values the inputs show
  lastEvent,         \* history: the last thing the user did to the form
  initialValues      \* useEstimatorValues: the initialValues argument of the hook

calcVars == <<calcValues, calcResult>>

pureVars == <<fnCall, fnResult>>

estVars == <<unitSystem, validationErrors, estimatorError, isAddingToCart, selectedPackageId, quantity,
             cartRequest, cartLog, formValues, lastEvent, initialValues>>

hookVars == <<values, calculation, isCalculating, error, debounceTimerRef, timers,
              running, mounted, now, inputSeq, inputTimes, calcLog>>

vars == <<productInfo, calcVars, hookVars, pureVars, estVars>>

\* ----------------------------------------------------------------- inputs
PackageKinds ==
  {[volume |-> Num(v), unit |-> u, price |-> Num(p)] :
     v \in 1..MaxPkgVolume, u \in {"fl_oz", "gallons"}, p \in 1..MaxPrice}

\* catalogs: every list of at most MaxPackages packages; ids are the positions
PackageLists ==
  UNION {[1..n -> PackageKinds] : n \in 0..MaxPackages}

WithIds(kinds) ==
  [i \in 1..Len(kinds) |->
     [id |-> i, volume |-> kinds[i].volume, unit |-> kinds[i].unit, price |-> kinds[i].price]]

ProductInfos ==
  {[packageSizes |-> WithIds(kinds), currency |-> "USD", concentrationRatio |-> R(5, 2)] :
     kinds \in PackageLists}

Areas == {Num(-100), Num(0), Num(500), Num(1000), Num(1600)}

Rates == {Num(2), Num(5), Num(12)}

\* acres are a unit of the imperial system (UNIT_SYSTEM_DEFAULTS.areaUnits)
EstimatorValues ==
  {v \in [area : Areas,
          areaUnit : {"sq_ft", "acres", "bogus"},
          weedSize : WeedSizes \cup {"invalid"},
          applicationRate : Rates,
          applicationUnit : {"fl_oz", "L/100L"},
          unitSystem : UnitSystems] :
     v.areaUnit = "acres" => v.unitSystem = "imperial"}

\* ------------------------------------------ calculate called directly
HookIdle ==
  /\ values = Null
  /\ calculation = Null
  /\ isCalculating = FALSE
  /\ error = Null
  /\ debounceTimerRef = 0
  /\ timers = {}
  /\ running = Null
  /\ mounted = FALSE
  /\ now = 0
  /\ inputSeq = 0
  /\ inputTimes = <<>>
  /\ calcLog = <<>>

\* no helper is called directly
PureIdle == fnCall = Null /\ fnResult = Null

\* no estimator component is rendered
EstimatorIdle ==
  /\ unitSystem = Null
  /\ validationErrors = <<>>
  /\ estimatorError = Null
  /\ isAddingToCart = FALSE
  /\ selectedPackageId = 0
  /\ quantity = Num(1)
  /\ cartRequest = Null
  /\ cartLog = <<>>
  /\ formValues = Null
  /\ lastEvent = Null
  /\ initialValues = Null

InitCalc ==
  /\ productInfo \in ProductInfos
  /\ calcValues \in EstimatorValues
  /\ calcResult = Null
  /\ HookIdle
  /\ PureIdle
  /\ EstimatorIdle

Calculate ==
  /\ calcValues # Null
  /\ calcResult = Null
  /\ calcResult' = calculate(productInfo, calcValues)
  /\ UNCHANGED <<productInfo, calcValues, hookVars, pureVars, estVars>>

NextCalc == Calculate

SpecCalc == InitCalc /\ [][NextCalc]_vars

\* ------------------------------------------- helpers called directly
\* required volumes in fluid ounces, around the package volumes of the catalogs
RequiredVolumes ==
  {Num(-1), Num(0), R(1, 2), Num(1), R(3, 2), Num(2), Num(3), Num(128), Num(129), Num(257)}

RecommendCalls ==
  {c \in [fn : {"generateRecommendations"}, first : RequiredVolumes, second : RequiredVolumes] :
     RLe(c.first, c.second)}

ValidationInputs ==
  [area : {Num(-100), Num(0), Num(50), Num(1000), Num(200000), NaN, Infinity},
   areaUnit : {"sq_ft"},
   weedSize : WeedSizes \cup {"invalid"},
   applicationRate : {Num(-1), Num(0), Num(2), Num(5), Num(12), NaN},
   applicationUnit : {"fl_oz"},
   unitSystem : {"imperial"}]

ValidateCalls == {[fn |-> "validateInputs", values |-> v] : v \in ValidationInputs}

\* positive values: 1, 5, 1000, 100000 and 2.5
ConvertValues == {Wide(1, 0), Wide(5, 0), Wide(1000, 0), Wide(100000, 0), Wide(25, 1)}

\* the unit arguments are strings at run time: the units of both families, a
\* tag that is no unit, and names that objects inherit
UnitTags == AreaUnits \cup VolumeUnits \cup {"invalid_unit"} \cup ObjectPrototypeKeys

ConvertCalls ==
  [fn : {"convertArea", "convertVolume"}, value : ConvertValues, from : UnitTags, to : UnitTags]

PureCalls == RecommendCalls \cup ValidateCalls \cup ConvertCalls

\* the catalog of the calculator whose helper is called; validateInputs does
\* not read it
PureProducts(call) ==
  IF call.fn = "generateRecommendations" THEN ProductInfos
  ELSE {[packageSizes |-> <<>>, currency |-> "USD", concentrationRatio |-> R(5, 2)]}

InitPure ==
  /\ fnCall \in PureCalls
  /\ productInfo \in PureProducts(fnCall)
  /\ fnResult = Null
  /\ calcValues = Null
  /\ calcResult = Null
  /\ HookIdle
  /\ EstimatorIdle

\* generateRecommendations for two required volumes, the catalog unchanged
CallGenerateRecommendations ==
  /\ fnResult = Null
  /\ fnCall.fn = "generateRecommendations"
  /\ fnResult' = [first |-> generateRecommendations(productInfo, fnCall.first),
                  second |-> generateRecommendations(productInfo, fnCall.second)]
  /\ UNCHANGED <<productInfo, calcVars, hookVars, estVars, fnCall>>

CallValidateInputs ==
  /\ fnResult = Null
  /\ fnCall.fn = "validateInputs"
  /\ fnResult' = validateInputs(fnCall.values)
  /\ UNCHANGED <<productInfo, calcVars, hookVars, estVars, fnCall>>

Convert(fn, value, from, to) ==
  IF fn = "convertArea" THEN convertArea(value, from, to) ELSE convertVolume(value, from, to)

\* a conversion and the conversion of its result back to the first unit
CallConvert ==
  /\ fnResult = Null
  /\ fnCall.fn \in {"convertArea", "convertVolume"}
  /\ \E converted \in {Convert(fnCall.fn, fnCall.value, fnCall.from, fnCall.to)} :
       fnResult' = [converted |-> converted,
                    backConverted |->
                      IF converted.ok
                      THEN Convert(fnCall.fn, converted.value, fnCall.to, fnCall.from)
                      ELSE converted]
  /\ UNCHANGED <<productInfo, calcVars, hookVars, estVars, fnCall>>

NextPure ==
  \/ CallGenerateRecommendations
  \/ CallValidateInputs
  \/ CallConvert

SpecPure == InitPure /\ [][NextPure]_vars


\* ------------------------------------------------- useRealtimeCalculation
\* The host is a single-threaded event loop: a render with its effects, and a
\* timer callback, each run to completion.  A render with a new values object
\* and the effect it triggers are one step (the input "arrives" when the
\* effect runs).  The timer callback is two steps, so that the state a
\* synchronous re-render exposes between its first setState calls and the end
\* of the computation (Calculating) is a state of the model; nothing else
\* runs between the two.
TickMs == CALCULATION_DEBOUNCE \div 3

\* the input sets handed to the hook: two that calculate accepts and two that
\* it rejects (no configuration for the weed size)
HookValues ==
  {v \in EstimatorValues :
     /\ v.area \in {Num(-100), Num(1000), Num(1600)}
     /\ v.areaUnit = "sq_ft"
     /\ v.weedSize \in {"medium", "invalid"}
     /\ v.applicationRate = Num(5)
     /\ v.applicationUnit = "fl_oz"
     /\ v.unitSystem = "imperial"}

HookProducts ==
  {p \in ProductInfos :
     /\ Len(p.packageSizes) <= 1
     /\ \A i \in DOMAIN p.packageSizes :
          p.packageSizes[i].unit = "fl_oz" /\ p.packageSizes[i].price = Num(1)}

\* clearTimeout(id) on the host's timer set
clearTimeout(pending, id) == {t \in pending : t.id # id}

\* calculateWithDebounce that never stores the new handle in the ref
calculateWithDebounceNoRef(pending, ref, v, seq, t, debounceMs) ==
  LET cleared == IF ref # 0 THEN clearTimeout(pending, ref) ELSE pending
      timer == [id |-> seq, deadline |-> t + debounceMs, vals |-> v, seq |-> seq]
  IN  [timers |-> cleared \cup {timer}, ref |-> ref]

\* calculateWithDebounce memoised without values among its dependencies: the
\* callback closes over the values of the previous render
calculateWithDebounceStale(pending, ref, v, seq, t, debounceMs) ==
  LET cleared == IF ref # 0 THEN clearTimeout(pending, ref) ELSE pending
      timer == [id |-> seq, deadline |-> t + debounceMs, vals |-> values, seq |-> seq]
  IN  [timers |-> cleared \cup {timer}, ref |-> timer.id]

\* calculateWithDebounce that ignores debounceMs: setTimeout(callback, 0)
calculateWithDebounceNoDelay(pending, ref, v, seq, t, debounceMs) ==
  LET cleared == IF ref # 0 THEN clearTimeout(pending, ref) ELSE pending
      timer == [id |-> seq, deadline |-> t, vals |-> v, seq |-> seq]
  IN  [timers |-> cleared \cup {timer}, ref |-> timer.id]

\* calculateWithDebounce of the render that received input number seq with
\* values v at time t: clear the timer the ref names, arm a new one whose
\* callback closes over v, and store its handle in the ref.  Timer handles are
\* fresh; the model names a handle by the number of the input that armed it.
calculateWithDebounce(pending, ref, v, seq, t, debounceMs) ==
  LET cleared == IF ref # 0 THEN clearTimeout(pending, ref) ELSE pending
      timer == [id |-> seq, deadline |-> t + debounceMs, vals |-> v, seq |-> seq]
  IN  [timers |-> cleared \cup {timer}, ref |-> timer.id]

\* an effect without a cleanup function
EffectCleanupMissing(pending, ref) == pending

\* the effect's cleanup function
EffectCleanup(pending, ref) ==
  IF ref # 0 THEN clearTimeout(pending, ref) ELSE pending

\* state after the first render and its effect
Init ==
  /\ productInfo \in HookProducts
  /\ calcValues = Null
  /\ calcResult = Null
  /\ values \in HookValues
  /\ calculation = Null
  /\ isCalculating = FALSE
  /\ error = Null
  /\ LET armed == calculateWithDebounce({}, 0, values, 1, 0, CALCULATION_DEBOUNCE)
     IN  timers = armed.timers /\ debounceTimerRef = armed.ref
  /\ running = Null
  /\ mounted = TRUE
  /\ now = 0
  /\ inputSeq = 1
  /\ inputTimes = <<0>>
  /\ calcLog = <<>>
  /\ PureIdle
  /\ EstimatorIdle

\* a render with a new values object: the previous effect's cleanup runs,
\* then the effect calls the new calculateWithDebounce
RerenderHook(v) ==
  /\ mounted
  /\ running = Null
  /\ inputSeq < MaxInputs
  /\ values' = v
  /\ inputSeq' = inputSeq + 1
  /\ inputTimes' = Append(inputTimes, now)
  /\ LET armed == calculateWithDebounce(EffectCleanup(timers, debounceTimerRef),
                                        debounceTimerRef, v, inputSeq + 1, now,
                                        CALCULATION_DEBOUNCE)
     IN  timers' = armed.timers /\ debounceTimerRef' = armed.ref
  /\ UNCHANGED <<productInfo, calcVars, pureVars, calculation, isCalculating, error, running,
                 mounted, now, calcLog>>

Rerender(v) == RerenderHook(v) /\ UNCHANGED estVars

\* the host clock advances; a due timer may fire late, never early
Tick ==
  /\ now < MaxTicks * TickMs
  /\ now' = now + TickMs
  /\ UNCHANGED <<productInfo, calcVars, pureVars, estVars, values, calculation, isCalculating, error,
                 debounceTimerRef, timers, running, mounted, inputSeq, inputTimes, calcLog>>

\* a callback that also clears the result when it starts
TimerFireClearsResult ==
  /\ running = Null
  /\ \E t \in timers :
       /\ now >= t.deadline
       /\ timers' = timers \ {t}
       /\ running' = t
  /\ isCalculating' = TRUE
  /\ error' = Null
  /\ calculation' = Null
  /\ UNCHANGED <<productInfo, calcVars, pureVars, estVars, values, debounceTimerRef, mounted,
                 now, inputSeq, inputTimes, calcLog>>

\* a due timer's callback starts: setIsCalculating(true); setError(null)
\* a callback that starts without setError(null)
TimerFireKeepsError ==
  /\ running = Null
  /\ \E t \in timers :
       /\ now >= t.deadline
       /\ timers' = timers \ {t}
       /\ running' = t
  /\ isCalculating' = TRUE
  /\ UNCHANGED <<productInfo, calcVars, pureVars, estVars, values, calculation, debounceTimerRef, mounted,
                 now, inputSeq, inputTimes, calcLog, error>>

TimerFire ==
  /\ running = Null
  /\ \E t \in timers :
       /\ now >= t.deadline
       /\ timers' = timers \ {t}
       /\ running' = t
  /\ isCalculating' = TRUE
  /\ error' = Null
  /\ UNCHANGED <<productInfo, calcVars, pureVars, estVars, values, calculation, debounceTimerRef, mounted,
                 now, inputSeq, inputTimes, calcLog>>

\* a catch clause without setCalculation(null)
CalcCompleteKeepsResult ==
  /\ running # Null
  /\ \E result \in {calculate(productInfo, running.vals)} :
         /\ IF result.ok
            THEN calculation' = result /\ error' = error
            ELSE error' = [prefix |-> result.prefix, cause |-> result.cause]
                 /\ calculation' = calculation
         /\ calcLog' = Append(calcLog, [seq |-> running.seq, vals |-> running.vals,
                                     ok |-> result.ok, at |-> now])
  /\ isCalculating' = FALSE
  /\ running' = Null
  /\ UNCHANGED <<productInfo, calcVars, pureVars, estVars, values, debounceTimerRef, timers, mounted, now,
                 inputSeq, inputTimes>>

\* the try / catch / finally of the callback
\* a callback whose catch clause returns without reaching setIsCalculating
CalcCompleteStaysCalculating ==
  /\ running # Null
  /\ \E result \in {calculate(productInfo, running.vals)} :
         /\ IF result.ok
            THEN calculation' = result /\ error' = error /\ isCalculating' = FALSE
            ELSE error' = [prefix |-> result.prefix, cause |-> result.cause]
                 /\ calculation' = Null /\ isCalculating' = isCalculating
         /\ calcLog' = Append(calcLog, [seq |-> running.seq, vals |-> running.vals,
                                     ok |-> result.ok, at |-> now])
  /\ running' = Null
  /\ UNCHANGED <<productInfo, calcVars, pureVars, values, debounceTimerRef, timers, mounted, now,
                 inputSeq, inputTimes>>

CalcCompleteHook ==
  /\ running # Null
  /\ \E result \in {calculate(productInfo, running.vals)} :
         /\ IF result.ok
            THEN calculation' = result /\ error' = error
            ELSE error' = [prefix |-> result.prefix, cause |-> result.cause]
                 /\ calculation' = Null
         /\ calcLog' = Append(calcLog, [seq |-> running.seq, vals |-> running.vals,
                                     ok |-> result.ok, at |-> now])
  /\ isCalculating' = FALSE
  /\ running' = Null
  /\ UNCHANGED <<productInfo, calcVars, pureVars, values, debounceTimerRef, timers, mounted, now,
                 inputSeq, inputTimes>>

CalcComplete == CalcCompleteHook /\ UNCHANGED estVars

\* the component unmounts: the effect's cleanup runs
Unmount ==
  /\ mounted
  /\ running = Null
  /\ mounted' = FALSE
  /\ timers' = EffectCleanup(timers, debounceTimerRef)
  /\ UNCHANGED <<productInfo, calcVars, pureVars, estVars, values, calculation, isCalculating, error,
                 debounceTimerRef, running, now, inputSeq, inputTimes, calcLog>>

Next ==
  \/ \E v \in HookValues : Rerender(v)
  \/ Tick
  \/ TimerFire
  \/ CalcComplete
  \/ Unmount

Spec == Init /\ [][Next]_vars

\* The host's clock advances, its event loop runs every timer that is due,
\* and a callback that has started runs to its end. Nothing obliges the user
\* to change the input or the parent to unmount. The last conjunct is
\* WF_vars(CalcComplete) written out: CalcComplete is enabled exactly while a
\* callback is running.
SpecLive ==
  /\ Init
  /\ [][Next]_vars
  /\ WF_vars(Tick)
  /\ WF_vars(TimerFire)
  /\ ([]<>(running = Null) \/ []<><<CalcComplete>>_vars)

\* ---------------------------------------------------- FireHawkEstimator
\* The estimator renders useEstimatorValues, useRealtimeCalculation on the
\* estimator values and, while a calculation is exposed, AddToCartSection.
\* An event handler with the renders and effects it causes is one step.
MaxCartRequests == 1

MaxEstimatorInputs == 3

DEFAULT_ESTIMATOR_VALUES ==
  [area |-> Num(1000), areaUnit |-> "sq_ft", weedSize |-> "medium",
   applicationRate |-> Num(5), applicationUnit |-> "L/100L", unitSystem |-> "imperial"]

\* the values a form whose rate is in fluid ounces hands to
\* handleValuesChange; the single inputs are then edited by their handlers
FormValues ==
  [area : {Num(1000)},
   areaUnit : {"sq_ft"},
   weedSize : {"medium"},
   applicationRate : {Num(5)},
   applicationUnit : {"fl_oz"},
   unitSystem : {"imperial"}]

\* what the user types or selects in the three inputs of the form
FormAreas == {Num(50), Num(1000)}

FormWeedSizes == {"medium", "large"}

FormRates == {Num(5)}

\* catalogs of the estimator: packages of 1, 2, ... fluid ounces at one price
EstimatorProducts ==
  {p \in ProductInfos :
     /\ Len(p.packageSizes) \in 1..MaxPackages
     /\ \A i \in DOMAIN p.packageSizes :
          /\ p.packageSizes[i].unit = "fl_oz"
          /\ p.packageSizes[i].volume = Num(IF i <= MaxPkgVolume THEN i ELSE MaxPkgVolume)
          /\ p.packageSizes[i].price = Num(1)}

getRecommendedRate(weedSize) == DEFAULT_APPLICATION_RATES(weedSize).default

\* updateValues of useEstimatorValues with a product: the merged values, the
\* rate replaced by the recommended one when the weed size changed, and the
\* messages of validateInputs on them
updateValues(prevValues, updates) ==
  LET merged == [k \in DOMAIN prevValues |-> IF k \in DOMAIN updates THEN updates[k] ELSE prevValues[k]]
      newValues == IF "weedSize" \in DOMAIN updates /\ updates.weedSize # prevValues.weedSize
                   THEN [merged EXCEPT !.applicationRate = getRecommendedRate(updates.weedSize)]
                   ELSE merged
  IN  [values |-> newValues, validationErrors |-> validateInputs(newValues).value]

\* the lazy initial state of useEstimatorValues: the defaults overridden by
\* the initialValues argument
InitialState(initial) ==
  [k \in DOMAIN DEFAULT_ESTIMATOR_VALUES |->
     IF k \in DOMAIN initial THEN initial[k] ELSE DEFAULT_ESTIMATOR_VALUES[k]]

\* resetValues of useEstimatorValues: the initial values again and an empty
\* list of messages
resetValues ==
  [values |-> InitialState(initialValues), validationErrors |-> <<>>]

\* allErrors without the validation messages
allErrorsWithoutValidation ==
  LET errors == (IF error # Null THEN <<error>> ELSE <<>>)
                  \o (IF estimatorError # Null THEN <<estimatorError>> ELSE <<>>)
  IN  IF Len(errors) > 0 THEN [errors |-> errors] ELSE Null

\* allErrors: the validation messages, the calculation error and the
\* estimator's own error, without the null entries; Null when none is left
\* (calculatorError stays null: the estimator never calls the calculate of
\* useFireHawkCalculator)
allErrors ==
  LET errors == validationErrors
                  \o (IF error # Null THEN <<error>> ELSE <<>>)
                  \o (IF estimatorError # Null THEN <<estimatorError>> ELSE <<>>)
  IN  IF Len(errors) > 0 THEN [errors |-> errors] ELSE Null

\* the first render of the estimator and its effects
InitEstimator ==
  /\ productInfo \in EstimatorProducts
  /\ unitSystem \in UnitSystems
  /\ initialValues = [DEFAULT_ESTIMATOR_VALUES EXCEPT !.unitSystem = unitSystem]
  /\ values = InitialState(initialValues)
  /\ validationErrors = <<>>
  /\ estimatorError = Null
  /\ isAddingToCart = FALSE
  /\ selectedPackageId = 0
  /\ quantity = Num(1)
  /\ cartRequest = Null
  /\ cartLog = <<>>
  /\ formValues = values
  /\ lastEvent = [kind |-> "mount"]
  /\ calculation = Null
  /\ isCalculating = FALSE
  /\ error = Null
  /\ LET armed == calculateWithDebounce({}, 0, values, 1, 0, CALCULATION_DEBOUNCE)
     IN  timers = armed.timers /\ debounceTimerRef = armed.ref
  /\ running = Null
  /\ mounted = TRUE
  /\ now = 0
  /\ inputSeq = 1
  /\ inputTimes = <<0>>
  /\ calcLog = <<>>
  /\ calcValues = Null
  /\ calcResult = Null
  /\ PureIdle

\* handleValuesChange: updateEstimatorValues(newValues); setError(null); the
\* new values object re-runs the effect of useRealtimeCalculation
HandleValuesChange(newValues) ==
  LET updated == updateValues(values, newValues)
  IN  /\ inputSeq < MaxEstimatorInputs
      /\ RerenderHook(updated.values)
      /\ validationErrors' = updated.validationErrors
      /\ estimatorError' = Null
      /\ UNCHANGED <<unitSystem, isAddingToCart, selectedPackageId, quantity, cartRequest, cartLog, initialValues>>

\* every handler of the form ends with setFormValues(updatedValues);
\* onValuesChange(updatedValues). The form's effect finds
\* formValues.unitSystem equal to the unitSystem prop and does nothing.
FormEmits(updatedValues) ==
  /\ updatedValues.unitSystem = unitSystem
  /\ formValues' = updatedValues
  /\ HandleValuesChange(updatedValues)

\* a form whose application unit is a unit of volume hands over a value set
FormChange(newValues) ==
  /\ lastEvent' = [kind |-> "edit", field |-> "any"]
  /\ FormEmits(newValues)

\* handleAreaChange
HandleAreaChange(newArea) ==
  /\ lastEvent' = [kind |-> "edit", field |-> "area"]
  /\ FormEmits([formValues EXCEPT !.area = newArea])

\* handleWeedSizeChange: the rate follows the new weed size's default
HandleWeedSizeChange(newWeedSize) ==
  /\ lastEvent' = [kind |-> "edit", field |-> "weedSize"]
  /\ FormEmits([formValues EXCEPT !.weedSize = newWeedSize,
                                  !.applicationRate = DEFAULT_APPLICATION_RATES(newWeedSize).default])

\* handleApplicationRateChange
HandleApplicationRateChange(newRate) ==
  /\ lastEvent' = [kind |-> "edit", field |-> "applicationRate"]
  /\ FormEmits([formValues EXCEPT !.applicationRate = newRate])

\* handleUnitSystemToggle, with the renders and effects it causes. The target
\* is computed from the unitSystem prop, which no handler of the estimator
\* ever changes. If convertToSystem throws, the handler ends before its first
\* setState. Otherwise the form holds the converted values and hands them to
\* the estimator; the form's effect then finds formValues.unitSystem different
\* from the prop, converts them to the prop's system (from the target's default
\* units, which cannot fail) and sets and hands over those.
HandleUnitSystemToggle ==
  LET newUnitSystem == IF unitSystem = "imperial" THEN "metric" ELSE "imperial"
      convertedValues == convertToSystem(formValues, newUnitSystem)
  IN  /\ mounted /\ running = Null
      /\ inputSeq < MaxEstimatorInputs
      /\ lastEvent' = [kind |-> "toggle", target |-> newUnitSystem, before |-> formValues]
      /\ IF ~convertedValues.ok
         THEN UNCHANGED <<productInfo, calcVars, hookVars, pureVars, unitSystem, validationErrors,
                          estimatorError, isAddingToCart, selectedPackageId, quantity,
                          cartRequest, cartLog, formValues, initialValues>>
         ELSE \E first \in {updateValues(values, convertedValues.value)} :
              \E effect \in {convertToSystem(convertedValues.value, unitSystem)} :
              \E second \in {updateValues(first.values, effect.value)} :
                /\ formValues' = effect.value
                /\ RerenderHook(second.values)
                /\ validationErrors' = second.validationErrors
                /\ estimatorError' = Null
                /\ UNCHANGED <<unitSystem, isAddingToCart, selectedPackageId, quantity,
                               cartRequest, cartLog, initialValues>>

\* handleReset: resetValues(); setError(null)
HandleReset ==
  /\ inputSeq < MaxEstimatorInputs
  /\ RerenderHook(resetValues.values)
  /\ validationErrors' = resetValues.validationErrors
  /\ estimatorError' = Null
  /\ lastEvent' = [kind |-> "reset"]
  /\ UNCHANGED <<unitSystem, isAddingToCart, selectedPackageId, quantity, cartRequest, cartLog,
                 formValues, initialValues>>

\* recommendations.find(rec => rec.isOptimal) || recommendations[0]; Null for
\* undefined
optimalRecommendation(calc) ==
  LET recs == calc.recommendations
      flagged == {i \in DOMAIN recs : recs[i].isOptimal}
  IN  IF flagged # {} THEN recs[CHOOSE i \in flagged : \A j \in flagged : i <= j]
      ELSE IF Len(recs) > 0 THEN recs[1]
      ELSE Null

\* AddToCartSection after a render with the calculation newCalc: it is
\* mounted only while a calculation is exposed, starts with no selection and
\* quantity 1, and its effect selects the optimal recommendation while
\* nothing is selected
SelectionAfter(oldCalc, newCalc, selected, qty) ==
  IF newCalc = Null THEN [selectedPackageId |-> 0, quantity |-> Num(1)]
  ELSE LET kept == IF oldCalc = Null
                   THEN [selectedPackageId |-> 0, quantity |-> Num(1)]
                   ELSE [selectedPackageId |-> selected, quantity |-> qty]
           optimal == optimalRecommendation(newCalc)
       IN  IF optimal # Null /\ kept.selectedPackageId = 0
           THEN [selectedPackageId |-> optimal.packageId, quantity |-> optimal.quantity]
           ELSE kept

\* packageSizes.find(pkg => pkg.id === selectedPackageId); Null for undefined
selectedPackage ==
  IF selectedPackageId \in DOMAIN productInfo.packageSizes
  THEN productInfo.packageSizes[selectedPackageId]
  ELSE Null

\* the section is rendered: {calculation && onAddToCart && ...}
AddToCartRendered == calculation # Null

\* the disabled attribute of the add button, with disabled={!!allErrors} and
\* isLoading={isAddingToCart}
AddToCartDisabled == allErrors # Null \/ isAddingToCart \/ selectedPackage = Null

\* the CartItem built by handleAddToCart of AddToCartSection
CartItem ==
  [sku |-> selectedPackage.id,
   quantity |-> quantity,
   unitPrice |-> selectedPackage.price,
   totalPrice |-> RMul(selectedPackage.price, quantity),
   metadata |->
     [estimatorValues |->
        [area |-> calculation.coverageArea,
         areaUnit |-> calculation.coverageUnit,
         weedSize |-> IF RGt(calculation.breakdown.factors.weedSizeMultiplier, Num(1))
                      THEN "medium" ELSE "small",
         applicationRate |-> calculation.breakdown.factors.applicationRate,
         applicationUnit |-> calculation.productUnit,
         unitSystem |-> "imperial"],
      calculationId |-> now,
      timestamp |-> now]]

\* the timer callback completes in the estimator: the hook's step, then the
\* render that mounts, keeps or unmounts AddToCartSection
EstimatorCalcComplete ==
  /\ CalcCompleteHook
  /\ LET after == SelectionAfter(calculation, calculation', selectedPackageId, quantity)
     IN  /\ selectedPackageId' = after.selectedPackageId
         /\ quantity' = after.quantity
  /\ UNCHANGED <<unitSystem, validationErrors, estimatorError, isAddingToCart, cartRequest, cartLog,
                 formValues, lastEvent, initialValues>>

\* a click on the enabled add button: AddToCartSection builds the item and
\* the estimator's handleAddToCart runs up to its await
AddToCartClick ==
  /\ mounted /\ running = Null
  /\ AddToCartRendered
  /\ ~AddToCartDisabled
  /\ Len(cartLog) < MaxCartRequests
  /\ isAddingToCart' = TRUE
  /\ estimatorError' = Null
  /\ cartRequest' = CartItem
  /\ cartLog' = Append(cartLog, [item |-> CartItem, inputs |-> calcLog[Len(calcLog)].vals,
                                 outcome |-> "pending"])
  /\ UNCHANGED <<productInfo, calcVars, hookVars, pureVars, unitSystem, validationErrors,
                 selectedPackageId, quantity, formValues, lastEvent, initialValues>>

\* onAddToCart resolves: finally setIsAddingToCart(false)
CartResolve ==
  /\ running = Null
  /\ cartRequest # Null
  /\ isAddingToCart' = FALSE
  /\ cartRequest' = Null
  /\ cartLog' = [cartLog EXCEPT ![Len(cartLog)].outcome = "resolved"]
  /\ UNCHANGED <<productInfo, calcVars, hookVars, pureVars, unitSystem, validationErrors,
                 estimatorError, selectedPackageId, quantity, formValues, lastEvent, initialValues>>

\* onAddToCart rejects and the handler also drops the displayed result
CartRejectClearsResult ==
  /\ running = Null
  /\ cartRequest # Null
  /\ estimatorError' = [text |-> "Failed to add item to cart"]
  /\ isAddingToCart' = FALSE
  /\ cartRequest' = Null
  /\ cartLog' = [cartLog EXCEPT ![Len(cartLog)].outcome = "rejected"]
  /\ calculation' = Null
  /\ UNCHANGED <<productInfo, calcVars, pureVars, unitSystem, validationErrors,
                 selectedPackageId, quantity, values, isCalculating, error,
                 debounceTimerRef, timers, running, mounted, now, inputSeq,
                 inputTimes, calcLog, formValues, lastEvent, initialValues>>

\* onAddToCart rejects: setError(message); finally setIsAddingToCart(false)
CartReject ==
  /\ running = Null
  /\ cartRequest # Null
  /\ estimatorError' = [text |-> "Failed to add item to cart"]
  /\ isAddingToCart' = FALSE
  /\ cartRequest' = Null
  /\ cartLog' = [cartLog EXCEPT ![Len(cartLog)].outcome = "rejected"]
  /\ UNCHANGED <<productInfo, calcVars, hookVars, pureVars, unitSystem, validationErrors,
                 selectedPackageId, quantity, formValues, lastEvent, initialValues>>

\* the dismiss button of the error banner: setError(null)
DismissError ==
  /\ mounted /\ running = Null
  /\ allErrors # Null
  /\ estimatorError # Null
  /\ estimatorError' = Null
  /\ UNCHANGED <<productInfo, calcVars, hookVars, pureVars, unitSystem, validationErrors,
                 isAddingToCart, selectedPackageId, quantity, cartRequest, cartLog,
                 formValues, lastEvent, initialValues>>

NextEstimator ==
  \/ \E newValues \in FormValues : FormChange(newValues)
  \/ \E newArea \in FormAreas : HandleAreaChange(newArea)
  \/ \E newWeedSize \in FormWeedSizes : HandleWeedSizeChange(newWeedSize)
  \/ \E newRate \in FormRates : HandleApplicationRateChange(newRate)
  \/ HandleUnitSystemToggle
  \/ HandleReset
  \/ Tick
  \/ TimerFire
  \/ EstimatorCalcComplete
  \/ AddToCartClick
  \/ CartResolve
  \/ CartReject
  \/ DismissError

SpecEstimator == InitEstimator /\ [][NextEstimator]_vars

\* ---------------------------------------- useEstimatorValues rendered alone
\* The hook is exported and takes any partial value set as initialValues;
\* updateValues and resetValues are called on what it returns.
InitialValueSets ==
  {[area |-> a] : a \in {Num(-100), Num(50), Num(1000), Num(1500)}}
    \cup {[area |-> Num(1500), weedSize |-> w] : w \in {"small", "large"}}
    \cup {[applicationRate |-> r] : r \in {Num(0), Num(5), Num(9)}}
    \cup {[unitSystem |-> "metric"]}

ValueUpdates ==
  {[area |-> a] : a \in {Num(-100), Num(50), Num(1000)}}
    \cup {[weedSize |-> w] : w \in {"small", "medium", "large"}}
    \cup {[applicationRate |-> r] : r \in {Num(0), Num(5), Num(9)}}

\* the first render of useEstimatorValues(initialValues, productInfo)
InitValues ==
  /\ productInfo \in EstimatorProducts
  /\ initialValues \in InitialValueSets
  /\ values = InitialState(initialValues)
  /\ validationErrors = <<>>
  /\ lastEvent = [kind |-> "mount"]
  /\ unitSystem = Null
  /\ estimatorError = Null
  /\ isAddingToCart = FALSE
  /\ selectedPackageId = 0
  /\ quantity = Num(1)
  /\ cartRequest = Null
  /\ cartLog = <<>>
  /\ formValues = Null
  /\ calculation = Null
  /\ isCalculating = FALSE
  /\ error = Null
  /\ debounceTimerRef = 0
  /\ timers = {}
  /\ running = Null
  /\ mounted = FALSE
  /\ now = 0
  /\ inputSeq = 0
  /\ inputTimes = <<>>
  /\ calcLog = <<>>
  /\ calcValues = Null
  /\ calcResult = Null
  /\ PureIdle

\* what a call on the returned tuple leaves alone
ValuesFrame ==
  UNCHANGED <<productInfo, calcVars, pureVars, unitSystem, estimatorError, isAddingToCart,
              selectedPackageId, quantity, cartRequest, cartLog, formValues, initialValues,
              calculation, isCalculating, error, debounceTimerRef, timers, running, mounted,
              now, inputSeq, inputTimes, calcLog>>

\* updateValues(updates) and the render that follows
UpdateValues(updates) ==
  \E updated \in {updateValues(values, updates)} :
    /\ values' = updated.values
    /\ validationErrors' = updated.validationErrors
    /\ lastEvent' = [kind |-> "update", updates |-> updates]
    /\ ValuesFrame

\* resetValues() and the render that follows
ResetValues ==
  /\ values' = resetValues.values
  /\ validationErrors' = resetValues.validationErrors
  /\ lastEvent' = [kind |-> "reset"]
  /\ ValuesFrame

NextValues ==
  \/ \E updates \in ValueUpdates : UpdateValues(updates)
  \/ ResetValues

SpecValues == InitValues /\ [][NextValues]_vars

\* =================================================================== claims
\* ------------------------------------------------- realtime controller
\* no timer pending, no callback running: Succeeded or Failed
Settled == mounted /\ timers = {} /\ running = Null

CalcsFrom(inputs) == {k \in DOMAIN calcLog : calcLog[k].seq \in inputs}

\* what the hook exposes once calculate has run on v
ExposesOutcomeOf(v) ==
  LET result == calculate(productInfo, v)
  IN  IF result.ok
      THEN calculation = result /\ error = Null
      ELSE calculation = Null /\ error = [prefix |-> result.prefix, cause |-> result.cause]

\* C1: when three consecutive input sets reach the hook within less than one
\* debounce window, no calculation is ever computed from the first two, at
\* most one from the third, and once the hook has settled on the third exactly
\* one calculation was executed for the three, from the last input's values.
C1_DebounceCollapsing ==
  \A i \in 1..(inputSeq - 2) :
    (inputTimes[i + 2] - inputTimes[i] < CALCULATION_DEBOUNCE) =>
      /\ CalcsFrom({i, i + 1}) = {}
      /\ Cardinality(CalcsFrom({i + 2})) <= 1
      /\ (i + 2 = inputSeq /\ Settled) =>
           /\ Cardinality(CalcsFrom({i, i + 1, i + 2})) = 1
           /\ calcLog[Len(calcLog)].seq = inputSeq
           /\ calcLog[Len(calcLog)].vals = values
           /\ ExposesOutcomeOf(values)

\* C1 witness: the first render and three changes, the changes within one
\* window, settled after a single calculation
C1_Witness ==
  /\ inputSeq = 4
  /\ inputTimes[4] - inputTimes[2] < CALCULATION_DEBOUNCE
  /\ Settled
  /\ Len(calcLog) = 1
  /\ calcLog[1].seq = 4

\* the result of the last successful calculation, Null if there was none
RECURSIVE LastGoodResult(_)
LastGoodResult(k) ==
  IF k = 0 THEN Null
  ELSE IF calcLog[k].ok THEN calculate(productInfo, calcLog[k].vals)
  ELSE LastGoodResult(k - 1)

LastCalcFailed == running = Null /\ Len(calcLog) > 0 /\ ~calcLog[Len(calcLog)].ok

\* C2 as the specification states it: after a failure that follows a success
\* the hook exposes the error together with the previous successful result.
C2_PreviousResultKept ==
  (LastCalcFailed /\ LastGoodResult(Len(calcLog)) # Null) =>
    /\ error # Null
    /\ calculation = LastGoodResult(Len(calcLog))

\* C2 (amended): after a failed calculation, also one that follows a success,
\* the hook exposes the error message of that failure, isCalculating is false
\* and calculation is null: the previous result is cleared.
C2_FailureClearsResult ==
  LastCalcFailed =>
    LET failure == calculate(productInfo, calcLog[Len(calcLog)].vals)
    IN  /\ error = [prefix |-> "Calculation failed", cause |-> failure.cause]
        /\ calculation = Null
        /\ ~isCalculating

\* C2 witness: a failure after an earlier success
C2_Witness ==
  /\ LastCalcFailed
  /\ LastGoodResult(Len(calcLog)) # Null
  /\ error # Null

\* C3: calculation changes only in the step that completes a calculation; a
\* new input, the passing of time, the start of the callback and the unmount
\* leave the exposed result as it was.
C3_ResultKeptUntilCompletion ==
  [][(calculation' # calculation) => (running # Null /\ running' = Null)]_vars

\* C3 witness: Calculating for a newer input while the previous successful
\* result, which the new calculation will replace, is still exposed
C3_Witness ==
  /\ running # Null
  /\ isCalculating
  /\ calculation # Null
  /\ calculation = LastGoodResult(Len(calcLog))
  /\ calculate(productInfo, running.vals) # calculation

\* C4: once the hook is unmounted no timer is pending and no callback is
\* running, and no later step changes calculation, error or isCalculating or
\* executes a calculation.
C4_NothingAfterDispose ==
  /\ [](~mounted => (timers = {} /\ running = Null))
  /\ [][~mounted => UNCHANGED <<calculation, error, isCalculating, calcLog>>]_vars

\* C4 witness: unmounted after several input changes with the last timer
\* never fired, at a time when that timer would have been due
C4_Witness ==
  /\ ~mounted
  /\ inputSeq >= 3
  /\ CalcsFrom({inputSeq}) = {}
  /\ now >= inputTimes[inputSeq] + CALCULATION_DEBOUNCE

\* C5: at most one debounce timer is pending, and while a calculation is in
\* flight none is, so no second calculation can start before the first ends.
C5_SingleTimer ==
  /\ Cardinality(timers) <= 1
  /\ running # Null => timers = {}

\* C5 witness: a timer armed by an input that arrived while the previous
\* input's timer was still pending
C5_Witness ==
  /\ inputSeq >= 2
  /\ inputTimes[inputSeq] - inputTimes[inputSeq - 1] < CALCULATION_DEBOUNCE
  /\ Cardinality(timers) = 1
  /\ \A t \in timers : t.seq = inputSeq

\* C6: a callback that runs belongs to the most recent input, and whenever
\* the hook is settled the exposed result or error is the outcome of
\* calculate on the most recent input set.
C6_NoStaleWrite ==
  /\ running # Null => (running.seq = inputSeq /\ running.vals = values)
  /\ Settled =>
       /\ Len(calcLog) > 0
       /\ calcLog[Len(calcLog)].seq = inputSeq
       /\ ExposesOutcomeOf(values)

\* C6 witness: settled on an input whose predecessor's timer was cancelled
\* and whose outcome differs from the predecessor's
C6_Witness ==
  /\ Settled
  /\ inputSeq >= 2
  /\ CalcsFrom({inputSeq - 1}) = {}
  /\ Len(calcLog) >= 2
  /\ calcLog[Len(calcLog)].vals # calcLog[Len(calcLog) - 1].vals

\* ------------------------------------------------ package recommendations
CalcOk == calcResult # Null /\ calcResult.ok

PackageOf(rec) == productInfo.packageSizes[rec.packageId]

PackageOz(rec) == convertVolume(PackageOf(rec).volume, PackageOf(rec).unit, "fl_oz").value

OptimalEntries == {i \in DOMAIN calcResult.recommendations : calcResult.recommendations[i].isOptimal}

C8_MinimalQuantity ==
  (CalcOk /\ RGt(RequiredProductOz(calcValues), Num(0))) =>
    \A i \in DOMAIN calcResult.recommendations :
      LET rec == calcResult.recommendations[i]
          required == RequiredProductOz(calcValues)
      IN  /\ rec.quantity.d = 1
          /\ RLe(required, RMul(rec.quantity, PackageOz(rec)))
          /\ RLt(RMul(RSub(rec.quantity, Num(1)), PackageOz(rec)), required)
          /\ rec.totalCost = RMul(rec.quantity, PackageOf(rec).price)

\* C8 witness: one package that covers the requirement exactly and one that
\* has to be rounded up, in the same result
C8_Witness ==
  /\ CalcOk
  /\ \E i, j \in DOMAIN calcResult.recommendations :
       LET a == calcResult.recommendations[i]
           b == calcResult.recommendations[j]
           required == RequiredProductOz(calcValues)
       IN  /\ RMul(a.quantity, PackageOz(a)) = required
           /\ RGt(RMul(b.quantity, PackageOz(b)), required)
           /\ RGt(b.quantity, Num(1))

\* C9 as the specification states it: ascending efficiency, entries of equal
\* efficiency ordered by lower totalCost first, then by input order.
C9_TieByTotalCost ==
  CalcOk =>
    LET recs == calcResult.recommendations
    IN  \A i, j \in DOMAIN recs : i < j =>
          /\ ~RLt(recs[j].efficiency, recs[i].efficiency)
          /\ CompareEfficiency(recs[i], recs[j]) = 0 =>
               \/ RLt(recs[i].totalCost, recs[j].totalCost)
               \/ /\ recs[i].totalCost = recs[j].totalCost
                  /\ recs[i].packageId < recs[j].packageId

\* every efficiency is a number. A package whose quantity is 0 (a required
\* volume of zero or below) has the efficiency 0 / 0 = NaN; the comparator
\* then returns NaN and the order Array.prototype.sort produces is
\* implementation-defined.
EfficienciesAreNumbers ==
  \A i \in DOMAIN calcResult.recommendations :
     calcResult.recommendations[i].efficiency # NaN

\* C9 (amended): when every efficiency is a number, the list is sorted
\* ascending by efficiency, and entries of equal efficiency keep their input
\* order whatever their totalCost.
C9_SortedStable ==
  (CalcOk /\ EfficienciesAreNumbers) =>
    LET recs == calcResult.recommendations
    IN  \A i, j \in DOMAIN recs : i < j =>
          /\ ~RLt(recs[j].efficiency, recs[i].efficiency)
          /\ CompareEfficiency(recs[i], recs[j]) = 0 => recs[i].packageId < recs[j].packageId

\* C9 witness: a sort that moved an entry, and two entries of equal efficiency
\* of which the first costs more
C9_Witness ==
  /\ CalcOk
  /\ EfficienciesAreNumbers
  /\ \E i, j \in DOMAIN calcResult.recommendations :
       /\ i < j
       /\ calcResult.recommendations[i].efficiency = calcResult.recommendations[j].efficiency
       /\ RGt(calcResult.recommendations[i].totalCost, calcResult.recommendations[j].totalCost)

\* the inputs calculate can convert: known units and a configured weed size
SupportedInputs(v) ==
  /\ v.areaUnit \in AreaUnits
  /\ v.applicationUnit \in VolumeUnits
  /\ v.weedSize \in WeedSizes

\* C10: with an empty package list calculate succeeds on every input it can
\* convert, returning an empty recommendation list and estimatedCost 0; the
\* empty catalog is never the cause of a failure.
C10_EmptyCatalog ==
  (calcResult # Null /\ Len(productInfo.packageSizes) = 0) =>
    IF SupportedInputs(calcValues)
    THEN /\ calcResult.ok
         /\ calcResult.recommendations = <<>>
         /\ calcResult.estimatedCost = Num(0)
    ELSE /\ ~calcResult.ok
         /\ calcResult.cause.kind \in {"ConversionNotSupported", "InvalidWeedSize"}

\* C10 witness: a successful call with an empty catalog and a positive
\* required volume
C10_Witness ==
  /\ CalcOk
  /\ Len(productInfo.packageSizes) = 0
  /\ RGt(RequiredProductOz(calcValues), Num(0))
  /\ calcResult.estimatedCost = Num(0)

\* ------------------------------------------------ helpers called directly
Returned(fn) == fnCall # Null /\ fnCall.fn = fn /\ fnResult # Null

\* the quantity the list recs computes for the package with identifier id
QuantityOf(recs, id) == recs[CHOOSE i \in DOMAIN recs : recs[i].packageId = id].quantity

\* C11: for a fixed package list and required volumes r1 <= r2, every
\* package's quantity computed for r2 is not smaller than its quantity
\* computed for r1.
C11_QuantityMonotone ==
  Returned("generateRecommendations") =>
    /\ fnResult.first.ok /\ fnResult.second.ok
    /\ \A i \in DOMAIN productInfo.packageSizes :
         LET q1 == QuantityOf(fnResult.first.value, i)
             q2 == QuantityOf(fnResult.second.value, i)
         IN  RLe(q1, q2)

\* C11 witness: two packages, the larger required volume raising the quantity
\* of one and leaving the other's as it was
C11_Witness ==
  /\ Returned("generateRecommendations")
  /\ Len(productInfo.packageSizes) = 2
  /\ RGt(fnCall.first, Num(0))
  /\ RLt(QuantityOf(fnResult.first.value, 1), QuantityOf(fnResult.second.value, 1))
  /\ QuantityOf(fnResult.first.value, 2) = QuantityOf(fnResult.second.value, 2)

AreaMessages == {AreaPositiveMessage, AreaMinMessage, AreaMaxMessage}

RateMessages(vals) ==
  {RatePositiveMessage,
   RateBoundsMessage(vals.weedSize, DEFAULT_APPLICATION_RATES(vals.weedSize))}

Negative(x) == RLt(x, Num(0))

\* C12: for a configured weed size, validateInputs on inputs whose area and
\* application rate are both negative returns a list with at least two
\* distinct messages: the area's "must be a positive number" and, after it,
\* the rate's "must be a positive number"; every area rule and every rate
\* rule that is violated has its message in the list.
C12_ExhaustiveValidation ==
  (/\ Returned("validateInputs")
   /\ fnCall.values.weedSize \in WeedSizes
   /\ Negative(fnCall.values.area)
   /\ Negative(fnCall.values.applicationRate)) =>
    /\ fnResult.ok
    /\ \E i, j \in DOMAIN fnResult.value :
         /\ i < j
         /\ fnResult.value[i] = AreaPositiveMessage
         /\ fnResult.value[j] = RatePositiveMessage
    /\ AreaMinMessage \in {fnResult.value[i] : i \in DOMAIN fnResult.value}
    /\ \E j \in DOMAIN fnResult.value :
         fnResult.value[j] = RateBoundsMessage(fnCall.values.weedSize,
                                               DEFAULT_APPLICATION_RATES(fnCall.values.weedSize))

\* C12 witness: area -100 and rate -1 give four messages, two about the area
\* and two about the rate
C12_Witness ==
  /\ Returned("validateInputs")
  /\ fnCall.values.area = Num(-100)
  /\ fnCall.values.applicationRate = Num(-1)
  /\ fnResult.ok
  /\ Len(fnResult.value) = 4
  /\ {fnResult.value[1], fnResult.value[2]} \subseteq AreaMessages
  /\ {fnResult.value[3], fnResult.value[4]} \subseteq RateMessages(fnCall.values)

\* ------------------------------------------------------- rate adjustment
\* the base rate in fluid ounces times the multiplier of the weed size
RateTimesMultiplier(vals) ==
  RMul(toStandardVolume(vals.applicationRate, vals.applicationUnit).value,
       WEED_SIZE_CONFIG(vals.weedSize).multiplier)

CloseTo(x, target, tolerance) ==
  LET diff == RSub(x, target)
  IN  ~IsNaN(diff) /\ RLt(diff, tolerance) /\ RLt(RSub(target, x), tolerance)

ScenarioValues ==
  [area |-> Num(1000), areaUnit |-> "sq_ft", weedSize |-> "medium",
   applicationRate |-> Num(2), applicationUnit |-> "fl_oz", unitSystem |-> "imperial"]

\* C14: calculate on 1000 square feet, weed size medium and rate 2.0 fl oz
\* uses multiplier 1.25 and adjusted rate 2.5 and returns a required
\* concentrate of 2.5 fl oz and a total mixture of 2.0 gallons (each within
\* 0.05).
C14_Scenario ==
  (calcResult # Null /\ calcValues = ScenarioValues) =>
    /\ calcResult.ok
    /\ calcResult.breakdown.factors.weedSizeMultiplier = R(5, 4)
    /\ CloseTo(calcResult.breakdown.factors.applicationRate, R(5, 2), R(1, 20))
    /\ calcResult.productUnit = "fl_oz"
    /\ CloseTo(calcResult.requiredProduct, R(5, 2), R(1, 20))
    /\ CloseTo(calcResult.totalMixture, Num(2), R(1, 20))

\* ------------------------------------------------------ invalid weed size
\* C15: calculate called with a weed-size tag that is not configured returns
\* no result: it fails with "Calculation failed" carrying the cause, which
\* is the invalid weed size unless a unit conversion failed before the weed
\* size was looked up.
C15_InvalidWeedSizeFails ==
  (calcResult # Null /\ calcValues.weedSize \notin WeedSizes) =>
    /\ ~calcResult.ok
    /\ calcResult.prefix = "Calculation failed"
    /\ IF calcValues.areaUnit \in AreaUnits /\ calcValues.applicationUnit \in VolumeUnits
       THEN calcResult.cause = [kind |-> "InvalidWeedSize", weedSize |-> calcValues.weedSize]
       ELSE calcResult.cause.kind = "ConversionNotSupported"

\* C15 witness: a call that fails because of the weed size alone, with a
\* non-empty catalog
C15_Witness ==
  /\ calcResult # Null
  /\ ~calcResult.ok
  /\ calcResult.cause.kind = "InvalidWeedSize"
  /\ Len(productInfo.packageSizes) > 0
  /\ calcValues.areaUnit = "sq_ft"

\* ------------------------------------------------------------ estimator
\* C16: while a validation error is present the add button, if rendered, is
\* disabled, and no step hands a cart item to onAddToCart.
C16_DisabledOnValidationError ==
  /\ [](validationErrors # <<>> => (AddToCartRendered => AddToCartDisabled))
  /\ [][validationErrors # <<>> => Len(cartLog') = Len(cartLog)]_vars

\* C16 witness: the add button rendered with a package selected and no
\* submission in flight, a validation message being the only error
C16_Witness ==
  /\ validationErrors # <<>>
  /\ AddToCartRendered
  /\ selectedPackage # Null
  /\ ~isAddingToCart
  /\ error = Null
  /\ estimatorError = Null

\* a step in which the pending cart submission is rejected
CartRejectStep ==
  /\ cartRequest # Null
  /\ cartRequest' = Null
  /\ cartLog'[Len(cartLog')].outcome = "rejected"

\* C17: a rejected cart submission leaves the displayed CalculationResult as
\* it was, neither cleared nor replaced; of the estimator's state only the
\* error message and the loading flag change.
C17_CartFailureKeepsResult ==
  [][CartRejectStep =>
       /\ calculation' = calculation
       /\ estimatorError' # Null
       /\ isAddingToCart /\ ~isAddingToCart'
       /\ UNCHANGED <<productInfo, calcVars, values, isCalculating, error,
                      unitSystem, validationErrors, selectedPackageId, quantity>>]_vars

\* C17 witness: the last submission was rejected and the result it was built
\* from is still displayed
C17_Witness ==
  /\ Len(cartLog) > 0
  /\ cartLog[Len(cartLog)].outcome = "rejected"
  /\ estimatorError # Null
  /\ calculation # Null
  /\ calculation.recommendations # <<>>

\* the last cart submission was rejected, it has finished, its message is
\* still shown and nothing else stands in the way of a submission
RejectedAndFinished ==
  /\ Len(cartLog) > 0
  /\ cartLog[Len(cartLog)].outcome = "rejected"
  /\ cartRequest = Null
  /\ ~isAddingToCart
  /\ estimatorError # Null
  /\ AddToCartRendered
  /\ selectedPackage # Null
  /\ validationErrors = <<>>
  /\ error = Null

C19_MetadataEchoesInputs ==
  \A k \in DOMAIN cartLog :
     cartLog[k].item.metadata.estimatorValues = cartLog[k].inputs

\* ----------------------------------------------------------- round trips
\* the two numbers brought to the same power of ten
AlignedLimbs(x, y) ==
  LET e == IF x.e > y.e THEN x.e ELSE y.e
  IN  [x |-> ScaleLimbs(x.limbs, e - x.e), y |-> ScaleLimbs(y.limbs, e - y.e)]

WideEqual(x, y) == \E a \in {AlignedLimbs(x, y)} : CompareLimbs(a.x, a.y) = 0

\* |x - target| <= tolerance * target
WithinRelative(x, target, tolerance) ==
  \E a \in {AlignedLimbs(x, target)} :
     CompareLimbs(ScaleLimbs(AbsDiffLimbs(a.x, a.y), tolerance.e),
                  MulLimbs(a.y, tolerance.m, 0)) <= 0

\* the strictest relative tolerance the repository's round-trip tests allow:
\* 0.05 on 1000
RoundTripTolerance == Dec(5, 5)

\* the units of the family a conversion function is declared for
UnitsOf(fn) == IF fn = "convertArea" THEN AreaUnits ELSE VolumeUnits

RoundTripCalled ==
  /\ fnResult # Null
  /\ fnCall.fn \in {"convertArea", "convertVolume"}
  /\ fnCall.from # fnCall.to
  /\ fnCall.from \in UnitsOf(fnCall.fn)
  /\ fnCall.to \in UnitsOf(fnCall.fn)

\* C20: converting a positive value to another unit of the same kind and back
\* returns the value within the rounding tolerance, for every pair of distinct
\* area units and every pair of distinct volume units.
C20_RoundTrip ==
  RoundTripCalled =>
    /\ fnResult.converted.ok
    /\ fnResult.backConverted.ok
    /\ WithinRelative(fnResult.backConverted.value, fnCall.value, RoundTripTolerance)

\* C20 witness: a round trip that does not return the value exactly
C20_Witness ==
  /\ RoundTripCalled
  /\ fnResult.backConverted.ok
  /\ ~WideEqual(fnResult.backConverted.value, fnCall.value)
  /\ WithinRelative(fnResult.backConverted.value, fnCall.value, RoundTripTolerance)

\* ------------------------------------------------- unsupported conversions
\* a conversion was called for two different tags that are not both units of
\* the function's family: the factor table has no entry for the pair
NoEntryCalled ==
  /\ fnResult # Null
  /\ fnCall.fn \in {"convertArea", "convertVolume"}
  /\ fnCall.from # fnCall.to
  /\ ~(fnCall.from \in UnitsOf(fnCall.fn) /\ fnCall.to \in UnitsOf(fnCall.fn))

\* C21: convertArea and convertVolume fail with the unsupported-conversion
\* error, and return no number, whenever the two tags differ and the factor
\* table has no entry for the pair.
C21_UnsupportedConversionFails ==
  NoEntryCalled =>
    /\ ~fnResult.converted.ok
    /\ fnResult.converted.cause.kind = "ConversionNotSupported"

\* ------------------------------------------------ the hook and validation
\* validateInputs reports at least one message for v, or cannot evaluate it
FailsValidation(v) ==
  \E r \in {validateInputs(v)} : ~r.ok \/ r.value # <<>>

\* the hook has settled after calculating from the values it currently has
SettledOnValues ==
  /\ Settled
  /\ Len(calcLog) > 0
  /\ calcLog[Len(calcLog)].vals = values

\* C22: given an input set that fails validation, the hook settles with a
\* non-empty error message and a null calculation.
C22_InvalidInputSettlesFailed ==
  (SettledOnValues /\ FailsValidation(values)) => (error # Null /\ calculation = Null)

\* ------------------------------------------------- the estimator's start
\* the first calculation has completed and the user has done nothing yet
FirstCalculationDone ==
  /\ inputSeq = 1
  /\ Settled
  /\ Len(calcLog) = 1
  /\ calcLog[1].vals = [DEFAULT_ESTIMATOR_VALUES EXCEPT !.unitSystem = unitSystem]

\* C23: started with the default values and no user input, the estimator's
\* first debounced calculation succeeds: a CalculationResult and no error, so
\* that the add button is rendered.
C23_DefaultsSucceed ==
  FirstCalculationDone => (calculation # Null /\ error = Null /\ AddToCartRendered)

\* --------------------------------------------------------------- the form
\* the defaults of an estimator created with the current unit system
ResetDefaults == [DEFAULT_ESTIMATOR_VALUES EXCEPT !.unitSystem = unitSystem]

\* the user edited the form and then pressed Reset, and nothing since
ResetAfterEdit ==
  /\ lastEvent.kind = "reset"
  /\ inputSeq > 2

\* C24: after Reset, whatever was edited before, the values the form shows
\* and the values the estimator holds both equal the defaults, and there is no
\* validation error.
C24_ResetRestoresDefaults ==
  lastEvent.kind = "reset" =>
    /\ formValues = ResetDefaults
    /\ values = ResetDefaults
    /\ validationErrors = <<>>

\* the user toggled the unit system and has done nothing to the form since
ToggledLast == lastEvent.kind = "toggle"

\* what the toggle is to leave in the form: the values shown before it,
\* converted to the newly selected system
ToggleTarget == convertToSystem(lastEvent.before, lastEvent.target)

\* a calculation from v is pending or was the last one executed
CalculationTriggeredWith(v) ==
  \/ \E t \in timers : t.vals = v
  \/ running # Null /\ running.vals = v
  \/ Len(calcLog) > 0 /\ calcLog[Len(calcLog)].vals = v /\ calcLog[Len(calcLog)].seq = inputSeq

\* C25: after a toggle of the unit system, once all effects have run, the
\* form's values are in the newly selected system (area and rate converted to
\* its default units) and stay so until the next toggle, and a calculation
\* with the converted values is triggered.
C25_ToggleConverts ==
  ToggledLast =>
    /\ ToggleTarget.ok
    /\ formValues = ToggleTarget.value
    /\ formValues.unitSystem = lastEvent.target
    /\ CalculationTriggeredWith(ToggleTarget.value)

\* ------------------------------------------------------------- liveness
\* the debounce window of the latest input ends within the modelled span of
\* the clock
WindowEndsInSpan == inputTimes[inputSeq] + CALCULATION_DEBOUNCE <= MaxTicks * TickMs

\* an input is waiting for its calculation, or the calculation is in flight
AwaitingCalculation ==
  /\ mounted
  /\ timers # {} \/ running # Null
  /\ WindowEndsInSpan

\* the hook has settled on input i: no timer pending, no callback running,
\* isCalculating false, and a result or an error exposed
SettledOn(i) ==
  /\ inputSeq = i
  /\ Settled
  /\ ~isCalculating
  /\ Len(calcLog) > 0
  /\ calcLog[Len(calcLog)].seq = i
  /\ calculation # Null \/ error # Null

\* C26: every input is eventually followed, unless the hook is unmounted, by
\* a settled state with a result or an error in which isCalculating is false;
\* the hook does not stay in Calculating. (The number of inputs is bounded, so
\* the last of them is never followed by a further one; an input whose window
\* ends after the modelled span of the clock is left out.)
C26_EventuallySettled ==
  AwaitingCalculation ~> (~mounted \/ SettledOn(inputSeq) \/ ~WindowEndsInSpan)

\* C26 witness: settled on an input that followed the first one
C26_Witness ==
  /\ inputSeq > 1
  /\ SettledOn(inputSeq)

\* ------------------------------------------------- result and error
\* a callback has completed and none is running
CallbackCompleted == running = Null /\ Len(calcLog) > 0

\* C27: after every completed callback of the hook exactly one of
\* calculation and error is non-null: after a success the result with no
\* error, after a failure the error with no result.
C27_ExactlyOneOfResultAndError ==
  CallbackCompleted =>
    IF calcLog[Len(calcLog)].ok
    THEN calculation # Null /\ error = Null
    ELSE calculation = Null /\ error # Null

\* C27 witness: a success that followed a failure
C27_Witness ==
  /\ CallbackCompleted
  /\ Len(calcLog) >= 2
  /\ ~calcLog[Len(calcLog) - 1].ok
  /\ calcLog[Len(calcLog)].ok

\* ------------------------------------------------------ cost and optimum
\* calculate returned for a non-empty package list and a positive required
\* volume
CostedResult ==
  /\ CalcOk
  /\ Len(productInfo.packageSizes) > 0
  /\ RGt(RequiredProductOz(calcValues), Num(0))

\* C28: for a non-empty package list and a positive required volume the
\* estimatedCost of the result equals the totalCost of the recommendation
\* flagged isOptimal.
C28_CostOfOptimal ==
  CostedResult =>
    \A i \in OptimalEntries :
       calcResult.estimatedCost = calcResult.recommendations[i].totalCost

\* ------------------------------------------------------ useEstimatorValues
\* C29: in every state of useEstimatorValues created with a product, at the
\* first render and after any calls of updateValues and resetValues, the
\* validationErrors it returns are the messages of validateInputs on the
\* values it holds.
C29_ErrorsMatchValues ==
  validationErrors = validateInputs(values).value

\* the hook was just created or reset on values that do not validate
UnvalidatedStart ==
  /\ lastEvent # Null
  /\ lastEvent.kind \in {"mount", "reset"}
  /\ validateInputs(values).value # <<>>

\* -------------------------------------------------------- cart quantity
\* the recommendations of the exposed result for the selected package
SelectedRecommendations ==
  {i \in DOMAIN calculation.recommendations :
     calculation.recommendations[i].packageId = selectedPackageId}

\* the cart section is mounted on a result that replaced an earlier result
\* without the section being unmounted in between
ResultReplaced ==
  /\ AddToCartRendered
  /\ selectedPackageId # 0
  /\ Len(calcLog) >= 2
  /\ calcLog[Len(calcLog)].ok
  /\ calcLog[Len(calcLog) - 1].ok
  /\ running = Null

\* C30: while the cart section is mounted (the quantity input is never
\* edited by hand), the cart quantity is the quantity the exposed result
\* recommends for the selected package, also after a new result arrived.
C30_QuantityFollowsResult ==
  (AddToCartRendered /\ selectedPackageId # 0) =>
    \A i \in SelectedRecommendations :
       quantity = calculation.recommendations[i].quantity

====
